---- MODULE Spec2Model ----
(***************************************************************************)
(* Model of mmcls/metrics/single_label.py: the two metric engines          *)
(* Accuracy and SingleLabelMetric (constructor, process, compute_metrics)  *)
(* and their static calculate functions with the shared reduction          *)
(* _precision_recall_f1_support.                                           *)
(*                                                                         *)
(* Numbers.  Scores and thresholds are fixed-point values in thousandths   *)
(* (1000 stands for the float 1.0).  Percentages and their means are exact *)
(* rationals [n |-> numerator, d |-> denominator]; d = 0 stands for an     *)
(* undefined value (NaN or Inf, the result of a division by zero).         *)
(* Python's None is the record NoneV where a number may also stand, and    *)
(* the string "None" for the average argument.                           *)
(***************************************************************************)
EXTENDS Integers, Sequences, FiniteSets, TLC

VARIABLES
    cls,          \* the class of the engine / of the static method called
    topk,         \* self.topk, or the topk argument of calculate
    thrs,         \* self.thrs, or the thrs argument of calculate
    items,        \* self.items
    average,      \* self.average, or the average argument of calculate
    results,      \* self.results, the buffer process appends to
    phase,        \* where the run is
    raised,       \* the exception the last operation raised, or NoExc
    metrics,      \* the mapping compute_metrics returned
    path,         \* the branch compute_metrics took: "score" or "label"
    tie,          \* how torch.topk orders equal scores in this build
    pred,         \* the pred tensor handed to calculate
    target,       \* the target tensor handed to calculate
    num_classes,  \* the num_classes argument of SingleLabelMetric.calculate
    ret,          \* what calculate returned
    call_data_batch,  \* the data_batch argument of the process call on record
    call_predictions  \* the predictions argument of the process call on record

vars == <<cls, topk, thrs, items, average, results, phase, raised, metrics,
          path, tie, pred, target, num_classes, ret, call_data_batch, call_predictions>>

----------------------------------------------------------------------------
(* Bounds of the model *)

\* most records in the results buffer of an engine
MaxN == 2
\* most entries N * C of the N x C indicator or score matrix of a direct call
\* of calculate
MaxCells == 4

\* score values: 0.0 and 1.0
ScoreVals == {0, 1000}
\* how torch.topk may order equal scores: lowest index first, or highest
TieRules == {"first", "last"}

NoneV == [tag |-> "None"]
Float(x) == [tag |-> "float", v |-> x]
IntV(x) == [tag |-> "int", v |-> x]

----------------------------------------------------------------------------
(* Sequences *)

RECURSIVE SumSeq(_)
SumSeq(s) == IF s = <<>> THEN 0 ELSE Head(s) + SumSeq(Tail(s))

RECURSIVE MaxSeq(_)
MaxSeq(s) == IF Len(s) = 1 THEN Head(s)
             ELSE LET m == MaxSeq(Tail(s)) IN IF Head(s) >= m THEN Head(s) ELSE m

----------------------------------------------------------------------------
(* Exceptions and outcomes *)

NoExc == [type |-> "none", msg |-> ""]
Exc(t, m) == [type |-> t, msg |-> m]
Return(v) == [exc |-> NoExc, val |-> v]
Raise(t, m) == [exc |-> Exc(t, m), val |-> <<>>]

----------------------------------------------------------------------------
(* Exact arithmetic standing for the float tensors *)

RECURSIVE GCD(_, _)
GCD(a, b) == IF b = 0 THEN a ELSE GCD(b, a % b)

NaN == [n |-> 0, d |-> 0]
IsFinite(x) == x.d > 0

Q(n, d) ==
    IF d = 0 THEN NaN
    ELSE LET g == GCD(IF n < 0 THEN -n ELSE n, d)
         IN  [n |-> n \div g, d |-> d \div g]

RAdd(x, y) == IF x.d = 0 \/ y.d = 0 THEN NaN ELSE Q(x.n * y.d + y.n * x.d, x.d * y.d)
RMul(x, y) == IF x.d = 0 \/ y.d = 0 THEN NaN ELSE Q(x.n * y.n, x.d * y.d)
\* x / y for y >= 0; a zero divisor gives an undefined value
RDiv(x, y) == IF x.d = 0 \/ y.d = 0 \/ y.n = 0 THEN NaN ELSE Q(x.n * y.d, x.d * y.n)

\* a/b < c/d for b, d > 0, by the integer parts and then the reciprocals of
\* the fractional parts (no product is formed, so nothing overflows)
RECURSIVE FracLess(_, _, _, _)
FracLess(a, b, c, d) ==
    LET qa == a \div b
        qc == c \div d
        ra == a % b
        rc == c % d
    IN  IF qa # qc THEN qa < qc
        ELSE IF rc = 0 THEN FALSE
        ELSE IF ra = 0 THEN TRUE
        ELSE FracLess(d, rc, b, ra)

RLess(x, y) == FracLess(x.n, x.d, y.n, y.d)
RLeq(x, y) == ~RLess(y, x)

\* faulty variant: the floor of the denominator is dropped
ClampNone(x, m) == x

\* torch.clamp(x, min=m)
ClampMin(x, m) == IF x.d = 0 THEN NaN ELSE IF RLess(x, m) THEN m ELSE x

RECURSIVE RSum(_)
RSum(s) == IF s = <<>> THEN Q(0, 1) ELSE RAdd(Head(s), RSum(Tail(s)))

\* tensor.mean(0) of a 1-D tensor
Mean(s) == RDiv(RSum(s), Q(Len(s), 1))

\* torch.finfo(torch.float32).eps = 2^-23 = 1 / EpsDen
EpsDen == 8388608
Eps == Q(1, EpsDen)

----------------------------------------------------------------------------
(* Tensor operations *)

\* the position torch.topk takes next among the positions left of row:
\* a highest score, equal scores in the order of the build's tie rule
Best(row, left, rule) ==
    CHOOSE i \in left : \A j \in left :
        \/ row[i] > row[j]
        \/ /\ row[i] = row[j]
           /\ (rule = "first" => i <= j)
           /\ (rule = "last" => i >= j)

\* faulty variant: the position taken is not removed from the candidates
RECURSIVE TopkFromRepeat(_, _, _, _)
TopkFromRepeat(row, left, k, rule) ==
    IF k = 0 THEN <<>>
    ELSE <<Best(row, left, rule)>> \o TopkFromRepeat(row, left, k - 1, rule)

RECURSIVE TopkFrom(_, _, _, _)
TopkFrom(row, left, k, rule) ==
    IF k = 0 THEN <<>>
    ELSE LET b == Best(row, left, rule)
         IN  <<b>> \o TopkFrom(row, left \ {b}, k - 1, rule)

\* row.topk(k): the k highest scores in descending order and their class
\* indices (classes are numbered from 0)
torch_topk(row, k, rule) ==
    LET pos == TopkFrom(row, 1..Len(row), k, rule)
    IN  [values  |-> [r \in 1..k |-> row[pos[r]]],
         indices |-> [r \in 1..k |-> pos[r] - 1]]

\* F.one_hot(labels, n) raises unless n > 0 and every label is in 0..n-1
one_hot_ok(labels, n) == n > 0 /\ \A s \in 1..Len(labels) : labels[s] \in 0..(n - 1)
one_hot(labels, n) ==
    [s \in 1..Len(labels) |-> [c \in 1..n |-> IF labels[s] = c - 1 THEN 1 ELSE 0]]

\* m.sum(0): the sums of the columns of an N x C matrix
sum0(m) == [c \in 1..Len(m[1]) |-> SumSeq([s \in 1..Len(m) |-> m[s][c]])]
\* m.sum(): the sum of all entries
sumAll(m) == SumSeq(sum0(m))

----------------------------------------------------------------------------
(* _precision_recall_f1_support *)

average_options == {"micro", "macro", "None"}

\* faulty variant: the ratio is left in the unit interval
RatioUnit(tp, total) == RDiv(Q(tp, 1), ClampMin(Q(total, 1), Q(1, 1)))

\* precision or recall of one count: tp / clamp(total, min=1.) * 100
Ratio(tp, total) == RMul(RDiv(Q(tp, 1), ClampMin(Q(total, 1), Q(1, 1))), Q(100, 1))

\* faulty variant: the factor 2 of the harmonic mean is forgotten
F1NoFactor(p, r) == RDiv(RMul(p, r), ClampMin(RAdd(p, r), Eps))

\* 2 * precision * recall / clamp(precision + recall, min=eps)
F1(p, r) == RDiv(RMul(RMul(Q(2, 1), p), r), ClampMin(RAdd(p, r), Eps))

\* A 0-d tensor (the pooled sums of 'micro') is a vector of one entry here;
\* its mean(0) and sum(0) are that entry.
precision_recall_f1_support(pred_positive, gt_positive, avg) ==
    IF avg \notin average_options
    THEN Raise("AssertionError", "Invalid average argument")
    ELSE
    LET class_correct == [s \in 1..Len(pred_positive) |->
                            [c \in 1..Len(pred_positive[s]) |->
                                IF pred_positive[s][c] = 1 /\ gt_positive[s][c] = 1
                                THEN 1 ELSE 0]]
        tp_sum   == IF avg = "micro" THEN <<sumAll(class_correct)>> ELSE sum0(class_correct)
        pred_sum == IF avg = "micro" THEN <<sumAll(pred_positive)>> ELSE sum0(pred_positive)
        gt_sum   == IF avg = "micro" THEN <<sumAll(gt_positive)>> ELSE sum0(gt_positive)
        precision == [c \in 1..Len(tp_sum) |-> Ratio(tp_sum[c], pred_sum[c])]
        recall    == [c \in 1..Len(tp_sum) |-> Ratio(tp_sum[c], gt_sum[c])]
        f1_score  == [c \in 1..Len(tp_sum) |-> F1(precision[c], recall[c])]
    IN  IF avg \in {"macro", "micro"}
        THEN Return(<<Mean(precision), Mean(recall), Mean(f1_score), SumSeq(gt_sum)>>)
        ELSE Return(<<precision, recall, f1_score, gt_sum>>)

----------------------------------------------------------------------------
(* Accuracy.calculate *)

\* A tensor is [ndim |-> 1, data |-> labels] or [ndim |-> 2, data |-> rows].
Labels1D(l) == [ndim |-> 1, data |-> l]
Scores2D(m) == [ndim |-> 2, data |-> m]

TopkMsg(maxk, c) ==
    "Top-" \o ToString(maxk) \o " accuracy is unavailable since the number of "
    \o "categories is " \o ToString(c) \o "."

\* acc = correct.mul_(100. / num): a tensor of one entry
Acc(correct, num) == <<Q(100 * correct, num)>>

\* faulty variants: a score equal to the threshold passes; the comparison is inverted
AboveOrEqual(score, thr) == score >= thr.v
Below(score, thr) == score < thr.v

\* is the score above the threshold: (pred_score.t() > thr), for thr not None
Above(score, thr) == score > thr.v

\* faulty variant: a topk equal to the number of categories is refused too
TooManyOrEqual(maxk, size1) == maxk >= size1

\* if maxk > pred.size(1): raise ValueError
TooMany(maxk, size1) == maxk > size1

AccuracyCalculate(p, t, tk, th, rule) ==
    LET num == Len(p.data) IN
    IF num # Len(t)
    THEN Raise("AssertionError", "The size of pred doesn't match the target")
    ELSE IF p.ndim = 1
    THEN \* For pred label, ignore topk and thrs
         Return(Acc(Cardinality({s \in 1..num : p.data[s] = t[s]}), num))
    ELSE IF tk = <<>>
    THEN \* max(topk) of an empty sequence
         Raise("ValueError", "max() arg is an empty sequence")
    ELSE
    LET maxk == MaxSeq(tk)
        size1 == Len(p.data[1])
    IN  IF TooMany(maxk, size1)
        THEN Raise("ValueError", TopkMsg(maxk, size1))
        ELSE
        LET top == [s \in 1..num |-> torch_topk(p.data[s], maxk, rule)]
            \* pred_label.t() and pred_score.t(): maxk x N
            pred_label == [r \in 1..maxk |-> [s \in 1..num |-> top[s].indices[r]]]
            pred_score == [r \in 1..maxk |-> [s \in 1..num |-> top[s].values[r]]]
            correct == [r \in 1..maxk |-> [s \in 1..num |-> pred_label[r][s] = t[s]]]
            \* _correct = correct & (pred_score.t() > thr), entry [r][s]
            gated(thr, r, s) ==
                correct[r][s] /\ (thr # NoneV => Above(pred_score[r][s], thr))
            \* _correct[:k].reshape(-1).float().sum(0)
            correct_k(k, thr) ==
                Cardinality({rs \in (1..k) \X (1..num) : gated(thr, rs[1], rs[2])})
        IN  Return([i \in 1..Len(tk) |-> [j \in 1..Len(th) |->
                        Acc(correct_k(tk[i], th[j]), num)]])

----------------------------------------------------------------------------
(* SingleLabelMetric.calculate *)

\* pred_positive[pred_score <= thr] = 0: the rows of the demoted samples
\* are zeroed (thr is not None)
\* faulty variant: a top score equal to the threshold is kept
DemotedStrict(score, thr) == score < thr.v

Demoted(score, thr) == score <= thr.v

SingleLabelCalculate(p, t, th, avg, nc, rule) ==
    LET num == Len(p.data) IN
    IF avg \notin average_options
    THEN Raise("AssertionError", "Invalid average argument")
    ELSE IF num # Len(t)
    THEN Raise("AssertionError", "The size of pred doesn't match the target")
    ELSE IF p.ndim = 1
    THEN IF nc = NoneV
         THEN Raise("AssertionError", "Please specicy the num_classes")
         ELSE IF ~one_hot_ok(t, nc.v) \/ ~one_hot_ok(p.data, nc.v)
         THEN Raise("RuntimeError", "one_hot: class values out of range")
         ELSE precision_recall_f1_support(one_hot(p.data, nc.v), one_hot(t, nc.v), avg)
    ELSE
    LET size1 == Len(p.data[1])
        top == [s \in 1..num |-> torch_topk(p.data[s], 1, rule)]
        pred_score == [s \in 1..num |-> top[s].values[1]]
        pred_label == [s \in 1..num |-> top[s].indices[1]]
        pred_positive(thr) ==
            [s \in 1..num |-> [c \in 1..size1 |->
                IF thr # NoneV /\ Demoted(pred_score[s], thr)
                THEN 0 ELSE one_hot(pred_label, size1)[s][c]]]
    IN  IF ~one_hot_ok(t, size1)
        THEN Raise("RuntimeError", "one_hot: class values out of range")
        ELSE Return([i \in 1..Len(th) |->
                 precision_recall_f1_support(pred_positive(th[i]),
                                             one_hot(t, size1), avg).val])

----------------------------------------------------------------------------
(* Direct calls of the static calculate functions *)

\* the shapes (N, C): N samples of C classes
Shapes == {sh \in (1..MaxCells) \X (1..MaxCells) : sh[1] * sh[2] <= MaxCells}

\* the label inputs of shape (N, C): pred (N, ) and target (N, ), labels below C
LabelInputs(n, c) ==
    {[pred |-> Labels1D(l), target |-> t, classes |-> c] :
        l \in [1..n -> 0..(c - 1)], t \in [1..n -> 0..(c - 1)]}

\* the score inputs of shape (N, C): pred (N, C) and target (N, ), labels below C
ScoreInputs(n, c) ==
    {[pred |-> Scores2D(m), target |-> t, classes |-> c] :
        m \in [1..n -> [1..c -> ScoreVals]], t \in [1..n -> 0..(c - 1)]}

CalcInputs == UNION {LabelInputs(sh[1], sh[2]) \cup ScoreInputs(sh[1], sh[2]) : sh \in Shapes}

\* the example of the SingleLabelMetric docstring
DocExample == [pred |-> Labels1D(<<0, 1, 1, 3>>), target |-> <<0, 2, 1, 3>>]
DocExampleClasses == 4

TopkArgs == {<<>>, <<1>>, <<2>>, <<1, 2>>, <<3>>}
ThrsArgs == {<<Float(0)>>, <<NoneV>>, <<NoneV, Float(0)>>,
             <<Float(0), Float(1000)>>, <<Float(1000), Float(0)>>}
AverageArgs == average_options \cup {"weighted"}
\* num_classes for label inputs of c classes: absent, c, or one too few
NumClassesArgs(c) == {NoneV, IntV(c)} \cup {IntV(n) : n \in {c - 1} \ {0}}

\* the defaults of the signatures of calculate
DefaultTopk == <<1>>
DefaultThrs == <<Float(0)>>
DefaultAverage == "macro"

CalcInit ==
    /\ phase = "call"
    /\ tie \in TieRules
    /\ items = <<>> /\ results = <<>> /\ metrics = <<>> /\ path = "none"
    /\ raised = NoExc /\ ret = <<>>
    /\ call_data_batch = <<>> /\ call_predictions = <<>>
    /\ \/ /\ cls = "Accuracy"
          /\ \E in \in CalcInputs : pred = in.pred /\ target = in.target
          /\ topk \in TopkArgs
          /\ thrs \in ThrsArgs
          /\ average = DefaultAverage
          /\ num_classes = NoneV
       \/ /\ cls = "SingleLabelMetric"
          /\ \E in \in CalcInputs :
                /\ pred = in.pred /\ target = in.target
                /\ IF in.pred.ndim = 1
                   THEN thrs = DefaultThrs /\ num_classes \in NumClassesArgs(in.classes)
                   ELSE thrs \in ThrsArgs /\ num_classes = NoneV
          /\ topk = DefaultTopk
          /\ average \in AverageArgs
       \/ /\ cls = "SingleLabelMetric"
          /\ pred = DocExample.pred /\ target = DocExample.target
          /\ topk = DefaultTopk /\ thrs = DefaultThrs
          /\ average \in average_options
          /\ num_classes = IntV(DocExampleClasses)

\* Accuracy.calculate(pred, target, topk, thrs)
CallAccuracyCalculate ==
    /\ phase = "call" /\ cls = "Accuracy"
    /\ \E out \in {AccuracyCalculate(pred, target, topk, thrs, tie)} :
         ret' = out.val /\ raised' = out.exc
    /\ phase' = "returned"
    /\ UNCHANGED <<cls, topk, thrs, items, average, results, metrics, path, tie,
                   pred, target, num_classes, call_data_batch, call_predictions>>

\* SingleLabelMetric.calculate(pred, target, thrs, average, num_classes)
CallSingleLabelCalculate ==
    /\ phase = "call" /\ cls = "SingleLabelMetric"
    /\ \E out \in {SingleLabelCalculate(pred, target, thrs, average, num_classes, tie)} :
         ret' = out.val /\ raised' = out.exc
    /\ phase' = "returned"
    /\ UNCHANGED <<cls, topk, thrs, items, average, results, metrics, path, tie,
                   pred, target, num_classes, call_data_batch, call_predictions>>

CalcNext == CallAccuracyCalculate \/ CallSingleLabelCalculate

CalcSpec == CalcInit /\ [][CalcNext]_vars

----------------------------------------------------------------------------
(* The engines: constructor arguments *)

SeqV(x) == [tag |-> "seq", v |-> x]

\* topk: an int or a sequence of ints
TopkConfigs == {IntV(1), SeqV(<<1, 2>>), SeqV(<<3>>), SeqV(<<>>)}
\* thrs: a float, None, or a sequence of floats and None (0.004 prints as
\* 0.00, and 0.996 and 1.004 both print as 1.00)
ThrsConfigs == {Float(0), NoneV, SeqV(<<NoneV, Float(0)>>), SeqV(<<Float(0), Float(4)>>),
                SeqV(<<Float(996), Float(1004)>>)}
SingleLabelThrsConfigs == {Float(0), SeqV(<<NoneV, Float(0)>>)}
ItemsConfigs == {<<"precision", "recall", "f1-score">>, <<"support">>,
                 <<"precision", "accuracy">>}
AverageConfigs == {"macro", "micro", "None", "weighted"}

item_options == {"precision", "recall", "f1-score", "support"}

\* if isinstance(topk, int): (topk, ) else: tuple(topk)
TopkTuple(arg) == IF arg.tag = "int" THEN <<arg.v>> ELSE arg.v
\* if isinstance(thrs, float) or thrs is None: (thrs, ) else: tuple(thrs)
ThrsTuple(arg) == IF arg.tag \in {"float", "None"} THEN <<arg>> ELSE arg.v

----------------------------------------------------------------------------
(* The engines: process *)

\* A dict is a record; a key is in the dict when it is in its DOMAIN.
Has(d, key) == key \in DOMAIN d

\* class labels of the samples of a run
SpecLabels == {0, 1}
\* score vectors of the samples of a run: one-hot, all equal, and a shorter one
SpecScoreRows == {<<1000, 0>>, <<0, 1000>>, <<0, 0>>, <<1000>>}

\* A sample is a (data, pred) pair: an entry of data_batch with the entry of
\* predictions at the same place.  data stands for data['data_sample'].
\* data has a gt_label; pred may have its own, which then differs from it.
GtChoices ==
    {[data |-> [gt_label |-> l], pred |-> <<>>] : l \in SpecLabels}
    \cup {[data |-> [gt_label |-> 0], pred |-> [gt_label |-> 1]]}

\* records are put together field by field
Field(key, val) == [k \in {key} |-> val]

\* the samples Accuracy is fed: a score vector or a label
AccuracySamples ==
    {[data |-> g.data, pred |-> g.pred @@ Field("pred_label", pl)] :
        g \in GtChoices,
        pl \in {[score |-> r] : r \in SpecScoreRows} \cup {[label |-> l] : l \in SpecLabels}}

\* the samples SingleLabelMetric is fed: a score vector, or a label with
\* num_classes absent, None, 0 or 1 in the prediction and absent or 2 in data
SingleLabelSamples ==
    {[data |-> g.data, pred |-> g.pred @@ Field("pred_label", [score |-> r])] :
        g \in GtChoices, r \in SpecScoreRows}
    \cup
    {[data |-> g.data @@ d, pred |-> g.pred @@ Field("pred_label", [label |-> l] @@ n)] :
        g \in GtChoices, l \in SpecLabels,
        d \in {<<>>, [num_classes |-> IntV(2)]},
        n \in {<<>>} \cup {[num_classes |-> x] : x \in {NoneV, IntV(0), IntV(1)}}}

\* batch sizes of one call of process
BatchSizes == {1, 2}

DataBatch(batch) == [i \in 1..Len(batch) |-> batch[i].data]
Predictions(batch) == [i \in 1..Len(batch) |-> batch[i].pred]

\* pred.get('gt_label', data['data_sample']['gt_label'])
GtLabelOf(data, p) == IF Has(p, "gt_label") THEN p.gt_label ELSE data.gt_label

\* the body of the loop of Accuracy.process for one (data, pred) pair
AccuracyRecord(data, p) ==
    LET pred_label == p.pred_label
        gt_label == GtLabelOf(data, p)
    IN  IF Has(pred_label, "score")
        THEN Return([pred_score |-> pred_label.score, gt_label |-> gt_label])
        ELSE Return([pred_label |-> pred_label.label, gt_label |-> gt_label])

\* Python truth of a num_classes value: None and 0 are false
Truthy(x) == x # NoneV /\ x.v # 0

\* the body of the loop of SingleLabelMetric.process for one (data, pred) pair
SingleLabelRecord(data, p) ==
    LET pred_label == p.pred_label
        gt_label == GtLabelOf(data, p)
    IN  IF Has(pred_label, "score")
        THEN Return([pred_score |-> pred_label.score, gt_label |-> gt_label])
        ELSE IF Has(pred_label, "num_classes") \/ Has(data, "num_classes")
        THEN \* pred_label.get('num_classes', None) or data[...]['num_classes']
             IF Has(pred_label, "num_classes") /\ Truthy(pred_label.num_classes)
             THEN Return([pred_label |-> pred_label.label,
                          num_classes |-> pred_label.num_classes,
                          gt_label |-> gt_label])
             ELSE IF Has(data, "num_classes")
             THEN Return([pred_label |-> pred_label.label,
                          num_classes |-> data.num_classes,
                          gt_label |-> gt_label])
             ELSE Raise("KeyError", "num_classes")
        ELSE Raise("ValueError", "The pred_label in predictions do not "
                                 \o "have neither score nor num_classes.")

RecordOf(c, data, p) ==
    IF c = "Accuracy" THEN AccuracyRecord(data, p) ELSE SingleLabelRecord(data, p)

\* for data, pred in zip(data_batch, predictions): ... self.results.append(result)
\* from pair i on; a raising pair ends the loop with the records appended so far
RECURSIVE ProcessFrom(_, _, _, _, _)
ProcessFrom(c, buf, data_batch, predictions, i) ==
    IF i > Len(data_batch) \/ i > Len(predictions)
    THEN [exc |-> NoExc, results |-> buf]
    ELSE LET out == RecordOf(c, data_batch[i], predictions[i])
         IN  IF out.exc # NoExc
             THEN [exc |-> out.exc, results |-> buf]
             ELSE ProcessFrom(c, Append(buf, out.val), data_batch, predictions, i + 1)

\* faulty variant: the records of the batch replace the buffer
ProcessFresh(c, buf, data_batch, predictions) ==
    ProcessFrom(c, <<>>, data_batch, predictions, 1)

Process(c, buf, data_batch, predictions) == ProcessFrom(c, buf, data_batch, predictions, 1)

----------------------------------------------------------------------------
(* The engines: compute_metrics *)

\* f'{thr:.2f}' of a threshold in thousandths
Format2f(v) ==
    LET h == (v + 5) \div 10
    IN  ToString(h \div 100) \o "." \o ToString((h % 100) \div 10) \o ToString(h % 10)

\* '_no-thr' if thr is None else f'_thr-{thr:.2f}'
ThrSuffix(thr) == IF thr = NoneV THEN "_no-thr" ELSE "_thr-" \o Format2f(thr.v)

\* the dict left by the assignments metrics[name] = value made in order
DictOf(entries) ==
    [nm \in {entries[n].name : n \in 1..Len(entries)} |->
        LET last == CHOOSE n \in 1..Len(entries) :
                        /\ entries[n].name = nm
                        /\ \A m \in (n + 1)..Len(entries) : entries[m].name # nm
        IN  entries[last].value]

EmptyDict == <<>>

\* what compute_metrics leaves: the exception or the returned metrics, the
\* branch taken, and the tensors and the result of its call of calculate
Computed(exc, m, branch, p, t, r) ==
    [exc |-> exc, metrics |-> m, path |-> branch, pred |-> p, target |-> t, ret |-> r]

\* no tensor was built
NoTensor == [ndim |-> 0, data |-> <<>>]

\* torch.cat([res['gt_label'] for res in results])
GtLabels(res) == [n \in 1..Len(res) |-> res[n].gt_label]

\* torch.stack([res['pred_score'] for res in results]) raises unless the
\* vectors have one length
Stackable(res) == \A n \in 1..Len(res) : Len(res[n].pred_score) = Len(res[1].pred_score)

ConfigHint == " Please check the val_evaluator and test_evaluator fields in your config file."

AccuracyComputeMetrics(res, tk, th, rule) ==
    IF res = <<>>
    THEN Computed(Exc("RuntimeError", "torch.cat(): expected a non-empty list of Tensors"),
                  EmptyDict, "none", NoTensor, NoTensor, <<>>)
    ELSE
    LET t == GtLabels(res) IN
    IF Has(res[1], "pred_score")
    THEN IF \E n \in 1..Len(res) : ~Has(res[n], "pred_score")
         THEN Computed(Exc("KeyError", "pred_score"), EmptyDict, "score", NoTensor, t, <<>>)
         ELSE IF ~Stackable(res)
         THEN Computed(Exc("RuntimeError", "stack expects each tensor to be equal size"),
                       EmptyDict, "score", NoTensor, t, <<>>)
         ELSE
         LET p == Scores2D([n \in 1..Len(res) |-> res[n].pred_score])
             out == AccuracyCalculate(p, t, tk, th, rule)
         IN  IF out.exc.type = "ValueError"
             THEN Computed(Exc("ValueError", out.exc.msg \o ConfigHint),
                           EmptyDict, "score", p, t, <<>>)
             ELSE IF out.exc # NoExc
             THEN Computed(out.exc, EmptyDict, "score", p, t, <<>>)
             ELSE
             LET acc == out.val
                 multi_thrs == Len(th) > 1
                 entries == [n \in 1..(Len(tk) * Len(th)) |->
                    LET i == ((n - 1) \div Len(th)) + 1
                        j == ((n - 1) % Len(th)) + 1
                    IN  [name  |-> "top" \o ToString(tk[i])
                                   \o (IF multi_thrs THEN ThrSuffix(th[j]) ELSE ""),
                         value |-> acc[i][j][1]]]
             IN  Computed(NoExc, DictOf(entries), "score", p, t, acc)
    ELSE \* If only label in the pred_label.
         IF \E n \in 1..Len(res) : ~Has(res[n], "pred_label")
         THEN Computed(Exc("KeyError", "pred_label"), EmptyDict, "label", NoTensor, t, <<>>)
         ELSE
         LET p == Labels1D([n \in 1..Len(res) |-> res[n].pred_label])
             out == AccuracyCalculate(p, t, tk, th, rule)
         IN  IF out.exc # NoExc
             THEN Computed(out.exc, EmptyDict, "label", p, t, <<>>)
             ELSE Computed(NoExc, DictOf(<<[name |-> "top1", value |-> out.val[1]]>>),
                           "label", p, t, out.val)

\* pack_results: the requested items of one 4-tuple, in the order of the code
ItemOrder == <<"precision", "recall", "f1-score", "support">>
pack_results(tup, its, suffix) ==
    LET asked == {m \in 1..4 : \E n \in 1..Len(its) : its[n] = ItemOrder[m]}
        RECURSIVE Pack(_)
        Pack(m) == IF m > 4 THEN <<>>
                   ELSE (IF m \in asked
                         THEN <<[name |-> ItemOrder[m] \o suffix, value |-> tup[m]]>>
                         ELSE <<>>) \o Pack(m + 1)
    IN  Pack(1)

\* the last loop of compute_metrics: the name by the average mode
AverageName(k, avg) ==
    IF avg = "None" THEN k \o "_classwise"
    ELSE IF avg = "micro" THEN k \o "_micro"
    ELSE k

ResultMetrics(entries, avg) ==
    DictOf([n \in 1..Len(entries) |->
              [name |-> AverageName(entries[n].name, avg), value |-> entries[n].value]])

RECURSIVE Concat(_)
Concat(ss) == IF ss = <<>> THEN <<>> ELSE Head(ss) \o Concat(Tail(ss))

SingleLabelComputeMetrics(res, th, its, avg, rule) ==
    IF res = <<>>
    THEN Computed(Exc("RuntimeError", "torch.cat(): expected a non-empty list of Tensors"),
                  EmptyDict, "none", NoTensor, NoTensor, <<>>)
    ELSE
    LET t == GtLabels(res) IN
    IF Has(res[1], "pred_score")
    THEN IF \E n \in 1..Len(res) : ~Has(res[n], "pred_score")
         THEN Computed(Exc("KeyError", "pred_score"), EmptyDict, "score", NoTensor, t, <<>>)
         ELSE IF ~Stackable(res)
         THEN Computed(Exc("RuntimeError", "stack expects each tensor to be equal size"),
                       EmptyDict, "score", NoTensor, t, <<>>)
         ELSE
         LET p == Scores2D([n \in 1..Len(res) |-> res[n].pred_score])
             out == SingleLabelCalculate(p, t, th, avg, NoneV, rule)
         IN  IF out.exc # NoExc
             THEN Computed(out.exc, EmptyDict, "score", p, t, <<>>)
             ELSE
             LET metrics_list == out.val
                 multi_thrs == Len(th) > 1
                 entries == Concat([i \in 1..Len(th) |->
                                pack_results(metrics_list[i], its,
                                    IF multi_thrs THEN ThrSuffix(th[i]) ELSE "")])
             IN  Computed(NoExc, ResultMetrics(entries, avg), "score", p, t, metrics_list)
    ELSE \* If only label in the pred_label.
         IF \E n \in 1..Len(res) : ~Has(res[n], "pred_label")
         THEN Computed(Exc("KeyError", "pred_label"), EmptyDict, "label", NoTensor, t, <<>>)
         ELSE
         LET p == Labels1D([n \in 1..Len(res) |-> res[n].pred_label])
             out == SingleLabelCalculate(p, t, DefaultThrs, avg, res[1].num_classes, rule)
         IN  IF out.exc # NoExc
             THEN Computed(out.exc, EmptyDict, "label", p, t, <<>>)
             ELSE Computed(NoExc, ResultMetrics(pack_results(out.val, its, ""), avg),
                           "label", p, t, out.val)

ComputeMetrics(c, res, tk, th, its, avg, rule) ==
    IF c = "Accuracy" THEN AccuracyComputeMetrics(res, tk, th, rule)
    ELSE SingleLabelComputeMetrics(res, th, its, avg, rule)

----------------------------------------------------------------------------
(* The run of an engine: construction, batches, the final reduction *)

Init ==
    /\ cls = "none" /\ phase = "new"
    /\ topk = <<>> /\ thrs = <<>> /\ items = <<>> /\ average = "none"
    /\ results = <<>> /\ metrics = EmptyDict /\ path = "none"
    /\ raised = NoExc
    /\ tie \in TieRules
    /\ pred = NoTensor /\ target = NoTensor /\ num_classes = NoneV /\ ret = <<>>
    /\ call_data_batch = <<>> /\ call_predictions = <<>>

\* Accuracy.__init__(topk, thrs)
AccuracyInit ==
    /\ phase = "new"
    /\ \E tk \in TopkConfigs, th \in ThrsConfigs :
         /\ topk' = TopkTuple(tk)
         /\ thrs' = ThrsTuple(th)
    /\ cls' = "Accuracy"
    /\ results' = <<>>
    /\ phase' = "ready"
    /\ UNCHANGED <<items, average, raised, metrics, path, tie, pred, target,
                   num_classes, ret, call_data_batch, call_predictions>>

\* SingleLabelMetric.__init__(thrs, items, average)
SingleLabelInit ==
    /\ phase = "new"
    /\ \E th \in SingleLabelThrsConfigs, its \in ItemsConfigs, avg \in AverageConfigs :
         /\ thrs' = ThrsTuple(th)
         /\ IF \E n \in 1..Len(its) : its[n] \notin item_options
            THEN /\ raised' = Exc("AssertionError",
                                  "The metric is not supported by SingleLabelMetric")
                 /\ phase' = "init_failed"
                 /\ UNCHANGED <<items, average>>
            ELSE /\ items' = its
                 /\ average' = avg
                 /\ phase' = "ready"
                 /\ UNCHANGED raised
    /\ cls' = "SingleLabelMetric"
    /\ results' = <<>>
    /\ UNCHANGED <<topk, metrics, path, tie, pred, target, num_classes, ret,
                   call_data_batch, call_predictions>>

\* Accuracy.process(data_batch, predictions)
AccuracyProcess ==
    /\ phase = "ready" /\ cls = "Accuracy"
    /\ \E n \in BatchSizes :
         /\ Len(results) + n <= MaxN
         /\ \E batch \in [1..n -> AccuracySamples] :
              \E out \in {Process("Accuracy", results, DataBatch(batch),
                                   Predictions(batch))} :
                  /\ results' = out.results
                  /\ raised' = out.exc
                  /\ phase' = IF out.exc = NoExc THEN "ready" ELSE "process_failed"
    /\ UNCHANGED <<cls, topk, thrs, items, average, metrics, path, tie, pred,
                   target, num_classes, ret, call_data_batch, call_predictions>>

\* SingleLabelMetric.process(data_batch, predictions)
SingleLabelProcess ==
    /\ phase = "ready" /\ cls = "SingleLabelMetric"
    /\ \E n \in BatchSizes :
         /\ Len(results) + n <= MaxN
         /\ \E batch \in [1..n -> SingleLabelSamples] :
              \E out \in {Process("SingleLabelMetric", results, DataBatch(batch),
                                   Predictions(batch))} :
                  /\ results' = out.results
                  /\ raised' = out.exc
                  /\ phase' = IF out.exc = NoExc THEN "ready" ELSE "process_failed"
    /\ UNCHANGED <<cls, topk, thrs, items, average, metrics, path, tie, pred,
                   target, num_classes, ret, call_data_batch, call_predictions>>

\* Accuracy.compute_metrics(results), on the accumulated results
AccuracyCompute ==
    /\ phase = "ready" /\ cls = "Accuracy"
    /\ \E out \in {AccuracyComputeMetrics(results, topk, thrs, tie)} :
           /\ raised' = out.exc
           /\ metrics' = out.metrics
           /\ path' = out.path
           /\ pred' = out.pred
           /\ target' = out.target
           /\ ret' = out.ret
           /\ phase' = IF out.exc = NoExc THEN "done" ELSE "compute_failed"
    /\ UNCHANGED <<cls, topk, thrs, items, average, results, tie, num_classes,
                   call_data_batch, call_predictions>>

\* SingleLabelMetric.compute_metrics(results), on the accumulated results
SingleLabelCompute ==
    /\ phase = "ready" /\ cls = "SingleLabelMetric"
    /\ \E out \in {SingleLabelComputeMetrics(results, thrs, items, average, tie)} :
           /\ raised' = out.exc
           /\ metrics' = out.metrics
           /\ path' = out.path
           /\ pred' = out.pred
           /\ target' = out.target
           /\ ret' = out.ret
           /\ phase' = IF out.exc = NoExc THEN "done" ELSE "compute_failed"
    /\ UNCHANGED <<cls, topk, thrs, items, average, results, tie, num_classes,
                   call_data_batch, call_predictions>>

Next ==
    \/ AccuracyInit
    \/ SingleLabelInit
    \/ AccuracyProcess
    \/ SingleLabelProcess
    \/ AccuracyCompute
    \/ SingleLabelCompute

Spec == Init /\ [][Next]_vars

----------------------------------------------------------------------------
(* Calls of process with their arguments on record *)

\* the defaults of the signatures of the constructors
DefaultItems == <<"precision", "recall", "f1-score">>

\* an engine constructed with the defaults, its buffer empty
ProcInit ==
    /\ cls \in {"Accuracy", "SingleLabelMetric"}
    /\ phase = "ready"
    /\ topk = DefaultTopk /\ thrs = DefaultThrs
    /\ IF cls = "Accuracy"
       THEN items = <<>> /\ average = "none"
       ELSE items = DefaultItems /\ average = DefaultAverage
    /\ results = <<>> /\ metrics = EmptyDict /\ path = "none"
    /\ raised = NoExc
    /\ tie \in TieRules
    /\ pred = NoTensor /\ target = NoTensor /\ num_classes = NoneV /\ ret = <<>>
    /\ call_data_batch = <<>> /\ call_predictions = <<>>

\* Accuracy.process(data_batch, predictions)
AccuracyProcessCall ==
    /\ phase = "ready" /\ cls = "Accuracy"
    /\ \E n \in BatchSizes :
         /\ Len(results) + n <= MaxN
         /\ \E batch \in [1..n -> AccuracySamples] :
              /\ call_data_batch' = DataBatch(batch)
              /\ call_predictions' = Predictions(batch)
              /\ \E out \in {Process("Accuracy", results, DataBatch(batch),
                                      Predictions(batch))} :
                  /\ results' = out.results
                  /\ raised' = out.exc
                  /\ phase' = IF out.exc = NoExc THEN "ready" ELSE "process_failed"
    /\ UNCHANGED <<cls, topk, thrs, items, average, metrics, path, tie, pred,
                   target, num_classes, ret>>

\* SingleLabelMetric.process(data_batch, predictions)
SingleLabelProcessCall ==
    /\ phase = "ready" /\ cls = "SingleLabelMetric"
    /\ \E n \in BatchSizes :
         /\ Len(results) + n <= MaxN
         /\ \E batch \in [1..n -> SingleLabelSamples] :
              /\ call_data_batch' = DataBatch(batch)
              /\ call_predictions' = Predictions(batch)
              /\ \E out \in {Process("SingleLabelMetric", results, DataBatch(batch),
                                      Predictions(batch))} :
                  /\ results' = out.results
                  /\ raised' = out.exc
                  /\ phase' = IF out.exc = NoExc THEN "ready" ELSE "process_failed"
    /\ UNCHANGED <<cls, topk, thrs, items, average, metrics, path, tie, pred,
                   target, num_classes, ret>>

ProcNext ==
    \/ AccuracyProcessCall
    \/ SingleLabelProcessCall
    \/ AccuracyCompute
    \/ SingleLabelCompute

ProcSpec == ProcInit /\ [][ProcNext]_vars

----------------------------------------------------------------------------
(* Claims about the run of an engine, checked under Spec *)

Finished == phase \in {"done", "compute_failed"}

\* the orders in which the records of a buffer can have been accumulated
Reorderings(buf) ==
    {[n \in 1..Len(buf) |-> buf[f[n]]] : f \in Permutations(1..Len(buf))}

\* C1: for a fixed multiset of samples, every partition into batches and
\* every order of the samples yields, after compute_metrics on the
\* accumulated records, the same metric mapping as one batch does: for score
\* records, label records, and label records that carry num_classes.
C1_OrderInvariance ==
    Finished
    => \A buf \in Reorderings(results) :
         LET out == ComputeMetrics(cls, buf, topk, thrs, items, average, tie)
         IN  out.metrics = metrics /\ (out.exc = NoExc) = (raised = NoExc)

\* C8: no process or compute_metrics step is reachable on a
\* SingleLabelMetric holding an average outside {'micro', 'macro', None} or
\* an item outside {'precision', 'recall', 'f1-score', 'support'}: the
\* constructor rejects them.
C8_InvalidConfigRejected ==
    (cls = "SingleLabelMetric" /\ phase \notin {"new", "init_failed"})
    => /\ average \in average_options
       /\ \A n \in 1..Len(items) : items[n] \in item_options

\* the requested k that exceed the c categories
Exceeding(c) == {n \in 1..Len(topk) : topk[n] > c}
\* the greatest requested k
GreatestK == CHOOSE k \in {topk[n] : n \in 1..Len(topk)} : \A n \in 1..Len(topk) : topk[n] <= k

\* C9 as stated: Accuracy.calculate raises a ValueError exactly when pred is
\* 2-D with C columns and max(topk) > C, never because of topk or thrs when
\* pred is 1-D; compute_metrics then propagates a ValueError whose message is
\* the original one followed by the configuration hint and returns no metrics.
C9_InsufficientClasses_Original ==
    (cls = "Accuracy" /\ Finished)
    => /\ raised.type = "ValueError"
          <=> (pred.ndim = 2 /\ Exceeding(Len(pred.data[1])) # {})
       /\ raised.type = "ValueError"
          => /\ metrics = EmptyDict
             /\ raised.msg = TopkMsg(GreatestK, Len(pred.data[1])) \o ConfigHint
       /\ pred.ndim = 1 => raised = NoExc

\* C9 amended: on tensors, Accuracy.calculate raises a ValueError exactly
\* when pred is 2-D with C columns and topk is empty (max(topk) itself raises)
\* or max(topk) > C, never when pred is 1-D; compute_metrics then propagates a
\* ValueError whose message is the original one followed by the
\* configuration hint and returns no metrics.
C9_InsufficientClasses ==
    (cls = "Accuracy" /\ Finished)
    => /\ raised.type = "ValueError"
          <=> (pred.ndim = 2 /\ (topk = <<>> \/ Exceeding(Len(pred.data[1])) # {}))
       /\ raised.type = "ValueError"
          => /\ metrics = EmptyDict
             /\ raised.msg =
                  (IF topk = <<>> THEN "max() arg is an empty sequence"
                   ELSE TopkMsg(GreatestK, Len(pred.data[1]))) \o ConfigHint
       /\ pred.ndim = 1 => raised = NoExc

\* compute_metrics has failed on two score records of two categories under
\* topk = (3, ) and the ValueError carries the hint
C9_Witness ==
    /\ cls = "Accuracy" /\ phase = "compute_failed" /\ topk = <<3>>
    /\ Len(results) = 2 /\ pred.ndim = 2 /\ Len(pred.data[1]) = 2
    /\ raised.type = "ValueError"
    /\ raised.msg = "Top-3 accuracy is unavailable since the number of categories is 2."
                    \o ConfigHint

\* C10: if any accumulated record holds a score vector, Accuracy
\* compute_metrics takes the score path, and the label path only when no
\* record holds scores, whichever record is first.
C10_ScoreDispatch ==
    (cls = "Accuracy" /\ Finished /\ results # <<>>)
    => (path = "score" <=> \E n \in 1..Len(results) : Has(results[n], "pred_score"))

\* the entries of a sequence are pairwise distinct
Distinct(s) == \A a, b \in 1..Len(s) : a # b => s[a] # s[b]

\* the name the claim gives the metric of (topk[i], thrs[j])
MetricName(i, j) ==
    "top" \o ToString(topk[i]) \o (IF Len(thrs) > 1 THEN ThrSuffix(thrs[j]) ELSE "")

\* C11: on the score path, with pairwise distinct k in topk and pairwise
\* distinct thresholds in thrs, Accuracy compute_metrics returns exactly
\* len(topk) * len(thrs) entries, the entry of (topk[i], thrs[j]) holds
\* acc[i][j] under the name top{k} with the threshold suffix (two decimals)
\* present iff more than one threshold is configured, and no two distinct
\* combinations share a name.
C11_NamedMetrics ==
    (cls = "Accuracy" /\ phase = "done" /\ path = "score"
        /\ Distinct(topk) /\ Distinct(thrs))
    => /\ Cardinality(DOMAIN metrics) = Len(topk) * Len(thrs)
       /\ \A i \in 1..Len(topk), j \in 1..Len(thrs) :
            /\ MetricName(i, j) \in DOMAIN metrics
            /\ metrics[MetricName(i, j)] = ret[i][j][1]
       /\ \A i, a \in 1..Len(topk), j, b \in 1..Len(thrs) :
            <<i, j>> # <<a, b>> => MetricName(i, j) # MetricName(a, b)

----------------------------------------------------------------------------
(* Claims about process, checked under ProcSpec *)

\* a step that is a call of process
ProcessStep == phase = "ready" /\ phase' \in {"ready", "process_failed"}

\* the prediction record gives a usable class count: present, not None, not 0
UsableClasses(pl) == Has(pl, "num_classes") /\ pl.num_classes # NoneV /\ pl.num_classes.v # 0

\* no class count can be determined from the pair
Undetermined(data, pl) == ~UsableClasses(pl) /\ ~Has(data, "num_classes")

\* C12: SingleLabelMetric.process on a raw-label prediction stores the
\* prediction record's num_classes when it is usable and the data record's
\* otherwise; when no class count can be determined from either record it
\* fails with ValueError and no other failure, and it never stores a record
\* without a class count.
C12_ClassCount ==
    [][(cls = "SingleLabelMetric" /\ ProcessStep)
       => LET h == Len(results') - Len(results)
          IN  /\ \A i \in 1..h :
                   LET pl == call_predictions'[i].pred_label
                       data == call_data_batch'[i]
                       rec == results'[Len(results) + i]
                   IN  ~Has(pl, "score")
                       => /\ ~Undetermined(data, pl)
                          /\ Has(rec, "num_classes")
                          /\ rec.num_classes = IF UsableClasses(pl) THEN pl.num_classes
                                               ELSE data.num_classes
              /\ (h < Len(call_data_batch')
                    /\ ~Has(call_predictions'[h + 1].pred_label, "score")
                    /\ Undetermined(call_data_batch'[h + 1],
                                    call_predictions'[h + 1].pred_label))
                 => raised'.type = "ValueError"]_vars

\* a step that is a call of compute_metrics
ComputeStep == phase = "ready" /\ phase' \in {"done", "compute_failed"}

\* C14: the results buffer is append-only: a process call of either engine,
\* returning or raising part-way through the batch, leaves the previous
\* buffer as an unchanged prefix and appends one record per handled pair in
\* input order (the whole batch when it returns normally); compute_metrics
\* never adds to, removes from, reorders or modifies the buffer.
C14_AppendOnly ==
    [][/\ ProcessStep
          => LET h == Len(results') - Len(results)
             IN  /\ h \in 0..Len(call_data_batch')
                 /\ SubSeq(results', 1, Len(results)) = results
                 /\ \A i \in 1..h :
                      LET out == RecordOf(cls, call_data_batch'[i], call_predictions'[i])
                      IN  out.exc = NoExc /\ results'[Len(results) + i] = out.val
                 /\ raised' = NoExc => h = Len(call_data_batch')
                 /\ raised' # NoExc
                    => /\ h < Len(call_data_batch')
                       /\ RecordOf(cls, call_data_batch'[h + 1],
                                   call_predictions'[h + 1]).exc = raised'
       /\ ComputeStep => results' = results]_vars

\* two process calls of one pair each have filled the buffer and
\* compute_metrics has returned
C14_Witness ==
    /\ phase = "done" /\ Len(results) = 2 /\ Len(call_data_batch) = 1
    /\ results[2] = RecordOf(cls, call_data_batch[1], call_predictions[1]).val
    /\ results[1] # results[2]

----------------------------------------------------------------------------
(* Claims about the calculate functions, checked under CalcSpec *)

Returned(c) == phase = "returned" /\ cls = c /\ raised = NoExc
NumSamples == Len(pred.data)
InRange(x) == IsFinite(x) /\ RLeq(Q(0, 1), x) /\ RLeq(x, Q(100, 1))

\* class a comes before class b in the descending order of a score row
Precedes(row, a, b, rule) ==
    \/ row[a + 1] > row[b + 1]
    \/ row[a + 1] = row[b + 1] /\ a # b /\ (IF rule = "first" THEN a < b ELSE a > b)

\* the true label of sample s is among the k highest scores of its row
InTopk(s, k) ==
    /\ target[s] \in 0..(Len(pred.data[s]) - 1)
    /\ Cardinality({c \in 0..(Len(pred.data[s]) - 1) :
                        Precedes(pred.data[s], c, target[s], tie)}) < k

\* the samples a correct top-k prediction under threshold thr counts
CorrectSamples(k, thr) ==
    {s \in 1..NumSamples :
        /\ InTopk(s, k)
        /\ (thr # NoneV => pred.data[s][target[s] + 1] > thr.v)}

\* C2: Accuracy.calculate on an N x C score matrix with max(topk) <= C
\* returns a table with acc[i][j] = 100 * (number of samples whose true label
\* is among the k = topk[i] highest scores and, when thr = thrs[j] is not
\* None, whose score for the true label is strictly greater than thr) / N.
C2_TopkTable ==
    (/\ phase = "returned" /\ cls = "Accuracy" /\ pred.ndim = 2
     /\ topk # <<>> /\ MaxSeq(topk) <= Len(pred.data[1]))
    => /\ raised = NoExc
       /\ Len(ret) = Len(topk)
       /\ \A i \in 1..Len(topk) :
            /\ Len(ret[i]) = Len(thrs)
            /\ \A j \in 1..Len(thrs) :
                 ret[i][j] = <<Q(100 * Cardinality(CorrectSamples(topk[i], thrs[j])),
                                 NumSamples)>>

\* a top-2 accuracy that the threshold lowers below the ungated one and that
\* differs from the top-1 accuracy
C2_Witness ==
    /\ Returned("Accuracy") /\ pred.ndim = 2
    /\ topk = <<1, 2>> /\ thrs = <<NoneV, Float(0)>>
    /\ NumSamples = 2
    /\ ret[2][1] = <<Q(100, 1)>> /\ ret[2][2] = <<Q(50, 1)>> /\ ret[1][1] = <<Q(50, 1)>>

\* the per-class counts of label predictions
TpCount(c) == Cardinality({s \in 1..NumSamples : pred.data[s] = c /\ target[s] = c})
PredCount(c) == Cardinality({s \in 1..NumSamples : pred.data[s] = c})
GtCount(c) == Cardinality({s \in 1..NumSamples : target[s] = c})
AtLeast1(n) == IF n < 1 THEN 1 ELSE n
RefPrecision(c) == Q(100 * TpCount(c), AtLeast1(PredCount(c)))
RefRecall(c) == Q(100 * TpCount(c), AtLeast1(GtCount(c)))
\* 2pr / max(p + r, eps): 0 when p + r = 0, else the harmonic mean
RefF1(c) ==
    IF TpCount(c) = 0 THEN Q(0, 1)
    ELSE Q(200 * TpCount(c), AtLeast1(PredCount(c)) + AtLeast1(GtCount(c)))
RefMean(f(_), n) == RDiv(RSum([c \in 1..n |-> f(c - 1)]), Q(n, 1))
RefMicro == Q(100 * Cardinality({s \in 1..NumSamples : pred.data[s] = target[s]}),
              NumSamples)

\* the reference confusion reduction of label predictions over n classes
RefReduction(avg, n) ==
    IF avg = "macro"
    THEN <<RefMean(RefPrecision, n), RefMean(RefRecall, n), RefMean(RefF1, n), NumSamples>>
    ELSE IF avg = "micro"
    THEN <<RefMicro, RefMicro, RefMicro, NumSamples>>
    ELSE <<[c \in 1..n |-> RefPrecision(c - 1)], [c \in 1..n |-> RefRecall(c - 1)],
           [c \in 1..n |-> RefF1(c - 1)], [c \in 1..n |-> GtCount(c - 1)]>>

\* C3: SingleLabelMetric.calculate on 1-D label predictions with
\* num_classes = C equals the reference confusion reduction (per-class
\* tp/precision/recall/f1 with denominators floored at 1; macro = unweighted
\* mean over the C classes of each per-class vector with support N; None =
\* the per-class vectors and target counts; micro = pooled counts), and the
\* docstring example gives precision 62.5, recall 75, f1 200/3, support 4.
C3_LabelReduction ==
    /\ (/\ phase = "returned" /\ cls = "SingleLabelMetric" /\ pred.ndim = 1
        /\ average \in average_options /\ num_classes # NoneV
        /\ one_hot_ok(pred.data, num_classes.v) /\ one_hot_ok(target, num_classes.v))
       => raised = NoExc /\ ret = RefReduction(average, num_classes.v)
    /\ (/\ phase = "returned" /\ cls = "SingleLabelMetric"
        /\ pred = DocExample.pred /\ target = DocExample.target
        /\ num_classes = IntV(DocExampleClasses) /\ average = "macro")
       => ret = <<Q(125, 2), Q(75, 1), Q(200, 3), 4>>

\* the docstring example has been reduced with the macro average
C3_Witness ==
    /\ Returned("SingleLabelMetric")
    /\ pred = DocExample.pred /\ target = DocExample.target
    /\ num_classes = IntV(DocExampleClasses) /\ average = "macro"
    /\ ret[3] = Q(200, 3)

\* C4: threshold monotonicity of Accuracy.calculate in score mode: for fixed
\* k, thr1 <= thr2 gives accuracy(k, thr2) <= accuracy(k, thr1), and
\* accuracy(k, thr) <= accuracy(k, None) for every numeric thr.
C4_ThresholdMonotone ==
    (Returned("Accuracy") /\ pred.ndim = 2)
    => \A i \in 1..Len(topk) : \A j1, j2 \in 1..Len(thrs) :
          (thrs[j2] # NoneV /\ (thrs[j1] = NoneV \/ thrs[j1].v <= thrs[j2].v))
          => RLeq(ret[i][j2][1], ret[i][j1][1])

\* a higher threshold has strictly lowered a positive accuracy
C4_Witness ==
    /\ Returned("Accuracy") /\ pred.ndim = 2 /\ Len(topk) = 1
    /\ thrs = <<Float(0), Float(1000)>>
    /\ RLess(ret[1][2][1], ret[1][1][1])

\* the top score and top class of sample s
TopScore(s) == MaxSeq(pred.data[s])
TopClass(s) == torch_topk(pred.data[s], 1, tie).indices[1]
IsDemoted(s, thr) == thr # NoneV /\ TopScore(s) <= thr.v

\* C5 as stated: for every N x C score matrix and target vector,
\* SingleLabelMetric.calculate with average='micro' returns precision, recall
\* and F1 equal to each other, for each threshold in thrs.
C5_MicroIdentity_Original ==
    (Returned("SingleLabelMetric") /\ pred.ndim = 2 /\ average = "micro")
    => \A i \in 1..Len(thrs) : ret[i][1] = ret[i][2] /\ ret[i][2] = ret[i][3]

\* C5 amended: with average='micro', precision, recall and F1 are equal for
\* every threshold that demotes no sample (thr is None, or every sample's top
\* score is above thr).
C5_MicroIdentity ==
    (Returned("SingleLabelMetric") /\ pred.ndim = 2 /\ average = "micro")
    => \A i \in 1..Len(thrs) :
          (\A s \in 1..NumSamples : ~IsDemoted(s, thrs[i]))
          => ret[i][1] = ret[i][2] /\ ret[i][2] = ret[i][3]

\* a micro reduction under a numeric threshold that demotes nothing, with a
\* precision strictly between 0 and 100
C5_Witness ==
    /\ Returned("SingleLabelMetric") /\ pred.ndim = 2 /\ average = "micro"
    /\ thrs = <<Float(0)>>
    /\ \A s \in 1..NumSamples : ~IsDemoted(s, thrs[1])
    /\ ret[1][1] = Q(50, 1) /\ ret[1][3] = Q(50, 1)

\* the 4-tuples a call of SingleLabelMetric.calculate returned
SlmTuples == IF pred.ndim = 1 THEN <<ret>> ELSE ret
\* the threshold the tuple of index i was computed under
SlmThr(i) == IF pred.ndim = 1 THEN NoneV ELSE thrs[i]
SlmClasses == IF pred.ndim = 1 THEN num_classes.v ELSE Len(pred.data[1])
\* the predicted-positive count of class c under threshold thr
PositiveCount(c, thr) ==
    IF pred.ndim = 1 THEN PredCount(c)
    ELSE Cardinality({s \in 1..NumSamples : TopClass(s) = c /\ ~IsDemoted(s, thr)})
\* the precision, recall and F1 values of a 4-tuple
TupleValues(tup) ==
    IF average = "None"
    THEN UNION {{tup[m][c] : c \in 1..Len(tup[m])} : m \in 1..3}
    ELSE {tup[1], tup[2], tup[3]}

\* C6: with average=None every class with no predicted-positive and no
\* ground-truth-positive sample gets precision = recall = f1 = 0 and support
\* 0, and no value of any average mode is undefined (no division by zero),
\* also when the threshold demotes every sample or precision + recall = 0.
C6_DegenerateClass ==
    Returned("SingleLabelMetric")
    => \A i \in 1..Len(SlmTuples) :
         /\ \A x \in TupleValues(SlmTuples[i]) : IsFinite(x)
         /\ average = "None"
            => \A c \in 0..(SlmClasses - 1) :
                 (PositiveCount(c, SlmThr(i)) = 0 /\ GtCount(c) = 0)
                 => /\ SlmTuples[i][1][c + 1] = Q(0, 1)
                    /\ SlmTuples[i][2][c + 1] = Q(0, 1)
                    /\ SlmTuples[i][3][c + 1] = Q(0, 1)
                    /\ SlmTuples[i][4][c + 1] = 0

\* a per-class reduction of scores in which the threshold has demoted every
\* sample and some class has no ground-truth sample either
C6_Witness ==
    /\ Returned("SingleLabelMetric") /\ pred.ndim = 2 /\ average = "None"
    /\ thrs = <<Float(1000), Float(0)>>
    /\ \A s \in 1..NumSamples : IsDemoted(s, thrs[1])
    /\ \E c \in 0..(SlmClasses - 1) :
         /\ PositiveCount(c, thrs[1]) = 0 /\ GtCount(c) = 0
         /\ ret[1][3][c + 1] = Q(0, 1)

\* C7: for N >= 1 every accuracy returned by Accuracy.calculate (label mode
\* and every (k, thr) cell in score mode) lies in [0, 100], and every
\* precision, recall and F1 returned by SingleLabelMetric.calculate (every
\* average mode, every threshold, per-class or averaged) lies in [0, 100].
C7_Range ==
    /\ Returned("Accuracy")
       => IF pred.ndim = 1 THEN InRange(ret[1])
          ELSE \A i \in 1..Len(topk) : \A j \in 1..Len(thrs) : InRange(ret[i][j][1])
    /\ Returned("SingleLabelMetric")
       => \A i \in 1..Len(SlmTuples) : \A x \in TupleValues(SlmTuples[i]) : InRange(x)

\* a top-2 accuracy of exactly 100: the true label is among the two top
\* labels of every sample and is counted once
C7_Witness ==
    /\ Returned("Accuracy") /\ pred.ndim = 2 /\ NumSamples = 2
    /\ topk = <<2>> /\ thrs = <<NoneV>>
    /\ ret[1][1] = <<Q(100, 1)>>


\* the samples counted for class c under thr: the top class is c, the sample
\* is not demoted, and c is its true label
ScoreTpCount(c, thr) ==
    Cardinality({s \in 1..NumSamples :
                    TopClass(s) = c /\ ~IsDemoted(s, thr) /\ target[s] = c})
\* the samples that keep their one predicted-positive entry under thr
KeptCount(thr) == Cardinality({s \in 1..NumSamples : ~IsDemoted(s, thr)})
KeptTpCount(thr) ==
    Cardinality({s \in 1..NumSamples : ~IsDemoted(s, thr) /\ TopClass(s) = target[s]})

\* C13: in score mode each sample contributes at most one predicted-positive
\* entry (its top class), demoted exactly when thr is not None and the top
\* score is <= thr; the 4-tuple returned at index i equals the one returned
\* for thrs = (thrs[i], ) alone, whatever the other thresholds and their
\* order are, and the ground-truth counts are never altered.
C13_ThresholdIndependence ==
    (Returned("SingleLabelMetric") /\ pred.ndim = 2)
    => \A i \in 1..Len(thrs) :
         /\ ret[i] = SingleLabelCalculate(pred, target, <<thrs[i]>>, average,
                                          num_classes, tie).val[1]
         /\ average = "None"
            => \A c \in 0..(SlmClasses - 1) :
                 /\ ret[i][1][c + 1] = Q(100 * ScoreTpCount(c, thrs[i]),
                                         AtLeast1(PositiveCount(c, thrs[i])))
                 /\ ret[i][2][c + 1] = Q(100 * ScoreTpCount(c, thrs[i]),
                                         AtLeast1(GtCount(c)))
                 /\ ret[i][4][c + 1] = GtCount(c)
         /\ average = "micro"
            => /\ ret[i][1] = Q(100 * KeptTpCount(thrs[i]), AtLeast1(KeptCount(thrs[i])))
               /\ ret[i][2] = Q(100 * KeptTpCount(thrs[i]), NumSamples)
               /\ ret[i][4] = NumSamples

\* the first threshold has demoted every sample and the second, lower one has
\* demoted none: the second tuple is the one of the second threshold alone
C13_Witness ==
    /\ Returned("SingleLabelMetric") /\ pred.ndim = 2 /\ average = "micro"
    /\ thrs = <<Float(1000), Float(0)>>
    /\ NumSamples = 2
    /\ KeptCount(thrs[1]) = 0 /\ KeptCount(thrs[2]) = 2
    /\ ret[1][1] = Q(0, 1) /\ ret[2][1] = Q(50, 1)

====
